---- MODULE Spec2Model ----
(***************************************************************************)
(* Voice-controlled task supervisor (mission/code/main.py) and the keyword *)
(* spotter it drives (mission/code/audio_detection.py).                    *)
(*                                                                         *)
(* Threads: the supervisor control thread (VoiceControlledRobot.run and    *)
(* what it calls), the recognition thread (AudioKeywordDetector.          *)
(* _listen_loop and the keyword callbacks it invokes), the supervised      *)
(* external processes, and time.                                           *)
(***************************************************************************)
EXTENDS Integers, Sequences, FiniteSets, TLC

(***************************************************************************)
(* Bounds of the model.                                                    *)
(***************************************************************************)
\* Number of final transcripts the recognizer delivers in one run.
MaxUtterances == 2
\* Seconds by which the monitoring clock advances in one step.
TickSeconds == 30
\* Number of _listen_loop threads one run may create.
MaxThreads == 2

(***************************************************************************)
(* Text: a Python str is a sequence of one-character strings.              *)
(***************************************************************************)
Uppers == <<"A","B","C","D","E","F","G","H","I","J","K","L","M","N","O","P","Q","R","S","T","U","V","W","X","Y","Z">>
Lowers == <<"a","b","c","d","e","f","g","h","i","j","k","l","m","n","o","p","q","r","s","t","u","v","w","x","y","z">>

LowerChar(c) ==
    IF \E i \in 1..Len(Uppers) : Uppers[i] = c
    THEN Lowers[CHOOSE i \in 1..Len(Uppers) : Uppers[i] = c]
    ELSE c

\* str.lower()
Lower(s) == [i \in 1..Len(s) |-> LowerChar(s[i])]

\* Python's `k in t` on strings: k occurs in t as a contiguous substring.
IsSubstring(k, t) ==
    \E i \in 0..(Len(t) - Len(k)) : SubSeq(t, i + 1, i + Len(k)) = k

K_glove     == <<"g","l","o","v","e">>
K_syringe   == <<"s","y","r","i","n","g","e">>
K_syrian    == <<"s","y","r","i","a","n">>
K_surrender == <<"s","u","r","r","e","n","d","e","r">>
K_pliers    == <<"p","l","i","e","r","s">>
K_player    == <<"p","l","a","y","e","r">>
K_players   == <<"p","l","a","y","e","r","s">>
K_playoffs  == <<"p","l","a","y","o","f","f","s">>
K_stop      == <<"s","t","o","p">>
K_step      == <<"s","t","e","p">>

\* Final transcripts the recognizer may deliver (non-empty texts).
T_hello      == <<"h","e","l","l","o">>
T_glove      == <<"g","l","o","v","e">>
T_Players    == <<"P","l","a","y","e","r","s">>
T_stop       == <<"s","t","o","p">>
T_glove_stop == <<"g","l","o","v","e"," ","s","t","o","p">>

Transcripts == {T_hello, T_glove, T_Players, T_stop, T_glove_stop}

(***************************************************************************)
(* Configuration of main.py.                                               *)
(***************************************************************************)
TASK_TIMEOUT == 60
\* timeout of current_process.wait() in _stop_current_task
GRACE_PERIOD == 5
\* current_process is None
NoProcess == 0

VOICE_TASKS ==
    [k \in {"glove", "syringe", "pliers"} |->
        CASE k = "glove"   -> "Pick up and give the glove"
          [] k = "syringe" -> "Pick up and give the syringe"
          [] k = "pliers"  -> "Pick up and give the pliers"]

\* Variant of KnownTask: the test of line 112 lets every key pass.
KnownTaskAlways(task_key) == TRUE

\* `task_key not in VOICE_TASKS` is the negation of this.
KnownTask(task_key) == task_key \in DOMAIN VOICE_TASKS

\* The callbacks bound in VoiceControlledRobot.__init__.
TaskCallback(k) == [kind |-> "task", key |-> k]

\* no callback bound yet by the for statement of _detect_keywords
NoCallback == [kind |-> "none", key |-> ""]
StopCallback    == [kind |-> "stop", key |-> "None"]

(***************************************************************************)
(* AudioKeywordDetector._callbacks: a dict, i.e. an insertion-ordered list *)
(* of (key, callback) with unique keys.                                    *)
(***************************************************************************)
HasKey(cbs, k) == \E i \in 1..Len(cbs) : cbs[i].key = k

\* self._callbacks[k] = callback
DictSet(cbs, k, callback) ==
    IF HasKey(cbs, k)
    THEN [i \in 1..Len(cbs) |->
            IF cbs[i].key = k THEN [key |-> k, cb |-> callback] ELSE cbs[i]]
    ELSE Append(cbs, [key |-> k, cb |-> callback])

RECURSIVE SetAliases(_, _, _)
SetAliases(cbs, aliases, callback) ==
    IF aliases = <<>> THEN cbs
    ELSE SetAliases(DictSet(cbs, Lower(Head(aliases)), callback),
                    Tail(aliases), callback)

register_keyword(cbs, keyword, callback, aliases) ==
    SetAliases(DictSet(cbs, Lower(keyword), callback), aliases, callback)

\* _callbacks after VoiceControlledRobot.__init__
RobotCallbacks ==
    LET c1 == register_keyword(<<>>, K_glove, TaskCallback("glove"), <<>>)
        c2 == register_keyword(c1, K_syringe, TaskCallback("syringe"),
                               <<K_syrian, K_surrender>>)
        c3 == register_keyword(c2, K_pliers, TaskCallback("pliers"),
                               <<K_player, K_players, K_playoffs>>)
    IN  register_keyword(c3, K_stop, StopCallback, <<K_step>>)

\* The distinct callbacks of the registry.
Bindings == {RobotCallbacks[i].cb : i \in 1..Len(RobotCallbacks)}

\* Index of the first key at position >= i that occurs in text; 0 if none.
\* (the `for keyword, callback in ...: if keyword in text_lower` scan)
NextMatch(cbs, txt, i) ==
    IF \E j \in i..Len(cbs) : IsSubstring(cbs[j].key, txt)
    THEN CHOOSE j \in i..Len(cbs) :
            /\ IsSubstring(cbs[j].key, txt)
            /\ \A l \in i..(j - 1) : ~IsSubstring(cbs[l].key, txt)
    ELSE 0

(***************************************************************************)
(* State.                                                                  *)
(***************************************************************************)
VARIABLES
    \* VoiceControlledRobot
    current_process,    \* pid of the Popen object, NoProcess for None
    current_task_name,  \* "None" or the task's description
    current_task_key,   \* "None" or the task's key
    command_queue,      \* queue.Queue of (type, data), stamped with seq
    \* the control thread: run and its callees (or the spotter's client)
    pc,                 \* position in the code
    ctx,                \* caller of _stop_current_task / of detector.stop
    cmd_data,           \* task key of the command being handled
    new_process,        \* Popen's result before it is stored
    exc,                \* exception propagating out of run's try block
    elapsed,            \* time.time() - start_time in _monitor_task
    waited,             \* time spent in current_process.wait(timeout=5)
    \* supervised processes
    live,               \* pids of processes that are alive
    signalled,          \* pids that were sent SIGINT
    killed,             \* pids that were sent SIGKILL
    \* AudioKeywordDetector
    callbacks,          \* _callbacks
    running,            \* _running
    stream,             \* _stream: "None", "open", "closed"
    audio,              \* _audio: "None", "open", "terminated"
    thread,             \* _thread: index of the last thread created, 0 for None
    recleaned,          \* _cleanup_audio has acted on a released resource
    \* the _listen_loop threads, per thread
    rpc,                \* position in the code
    text,               \* text_lower in _detect_keywords
    idx,                \* position of the scan over _callbacks
    faulted,            \* the loop was ended by an exception
    fired,              \* per callback: invocations for the thread's text
    caught,             \* a callback's exception was caught for the text
    dirty,              \* _callbacks changed size during the thread's scan
    called,             \* the callback the thread's for statement last bound
    preempted,          \* key of the task that ran when a StartTask was got
    stopped,            \* what _stop_current_task printed: "cleanly", "forcefully"
    \* history
    heard,              \* number of final transcripts delivered
    nput,               \* number of commands put on the queue
    ngot,               \* number of commands the supervisor got
    \* announcements
    tts_lock,           \* tts_lock: 0 when free, else the _speak thread holding it
    speech              \* the _speak threads, in the order of their creation

robotVars == <<current_process, current_task_name, current_task_key>>
locals    == <<ctx, cmd_data, preempted, stopped>>
supVars   == <<pc, locals, new_process, exc, elapsed, waited>>
procVars  == <<live, signalled, killed>>
audioVars == <<running, stream, audio, thread, recleaned>>
loopVars  == <<callbacks, rpc, text, idx, faulted, fired, caught, dirty, called, heard>>
detVars   == <<audioVars, loopVars>>
busVars   == <<command_queue, nput>>
speechVars == <<tts_lock, speech>>
vars == <<robotVars, busVars, supVars, procVars, detVars, ngot, speechVars>>

Threads == 1..MaxThreads

Alive(p) == p \in live

\* Variant of ProcessRunning: the handle is used without being tested.
ProcessRunningUnchecked == TRUE

\* self.current_process (truthiness) and self.current_process.poll() is None
ProcessRunning == current_process # NoProcess /\ Alive(current_process)

\* The interpreter has exited: its daemon threads run no more.
ProgramExited == pc \in {"done", "crashed"}

\* threading.Thread.is_alive()
ThreadAlive(t) == rpc[t] \notin {"None", "exited"}

Init ==
    /\ current_process = NoProcess
    /\ current_task_name = "None"
    /\ current_task_key = "None"
    /\ command_queue = <<>>
    /\ pc = "run_start"
    /\ ctx = "None"
    /\ cmd_data = "None"
    /\ preempted = "None"
    /\ stopped = "None"
    /\ new_process = NoProcess
    /\ exc = "None"
    /\ elapsed = 0
    /\ waited = 0
    /\ live = {}
    /\ signalled = {}
    /\ killed = {}
    /\ callbacks = RobotCallbacks
    /\ running = FALSE
    /\ stream = "None"
    /\ audio = "None"
    /\ thread = 0
    /\ recleaned = FALSE
    /\ rpc = [t \in Threads |-> "None"]
    /\ text = [t \in Threads |-> <<>>]
    /\ idx = [t \in Threads |-> 0]
    /\ faulted = [t \in Threads |-> FALSE]
    /\ fired = [t \in Threads |-> [b \in Bindings |-> 0]]
    /\ caught = [t \in Threads |-> FALSE]
    /\ dirty = [t \in Threads |-> FALSE]
    /\ called = [t \in Threads |-> NoCallback]
    /\ heard = 0
    /\ nput = 0
    /\ ngot = 0
    /\ tts_lock = 0
    /\ speech = <<>>

(***************************************************************************)
(* CommandBus: queue.Queue.                                                *)
(***************************************************************************)
\* command_queue.put(cmd); the command is stamped with its rank
Put(cmd) ==
    /\ command_queue' = Append(command_queue, [cmd EXCEPT !.seq = nput + 1])
    /\ nput' = nput + 1

\* Variant of Get: a bus that hands out the newest command first.
GetLast(q) == [cmd |-> q[Len(q)], rest |-> SubSeq(q, 1, Len(q) - 1)]

\* command_queue.get(timeout=...) when the queue holds a command
Get(q) == [cmd |-> Head(q), rest |-> Tail(q)]

TaskCommand(k) == [type |-> "task", data |-> k, seq |-> 0]
StopCommand    == [type |-> "stop", data |-> "None", seq |-> 0]

(***************************************************************************)
(* Supervised processes and time.                                          *)
(***************************************************************************)
\* A supervised process ends: on its own, or in response to SIGINT.
ProcExit(p) ==
    /\ Alive(p)
    /\ live' = live \ {p}
    /\ UNCHANGED <<signalled, killed>>
    /\ UNCHANGED <<robotVars, busVars, supVars, detVars, ngot, speechVars>>

\* Time passes while _monitor_task loops.
Tick ==
    /\ pc \in {"mon_loop", "mon_get"}
    /\ elapsed <= TASK_TIMEOUT
    /\ elapsed' = elapsed + TickSeconds
    /\ UNCHANGED <<pc, locals, new_process, exc, waited>>
    /\ UNCHANGED <<robotVars, busVars, procVars, detVars, ngot, speechVars>>

\* Time passes while current_process.wait(timeout=5) blocks.
WaitTick ==
    /\ pc = "stop_wait"
    /\ Alive(current_process)
    /\ waited < GRACE_PERIOD
    /\ waited' = waited + 1
    /\ UNCHANGED <<pc, locals, new_process, exc, elapsed>>
    /\ UNCHANGED <<robotVars, busVars, procVars, detVars, ngot, speechVars>>

\* The pids in use: of the live processes and of the Popen objects that
\* the handle or a record refers to.
UsedPids == live \cup {current_process} \cup signalled \cup killed

\* The pid of a new process: the least one not in use.
NewPid ==
    CHOOSE p \in 1..(Cardinality(UsedPids) + 1) :
        /\ p \notin UsedPids
        /\ \A q \in 1..(p - 1) : q \in UsedPids

(***************************************************************************)
(* VoiceControlledRobot._stop_current_task                                 *)
(***************************************************************************)
\* Variant of StopReturn: _monitor_task returns after a stop instead of
\* breaking out of its loop.
StopReturnSkipsEnd(caller) ==
    CASE caller \in {"run_task", "mon_task"} -> "start"
      [] caller \in {"run_stop", "mon_stop", "mon_timeout"} -> "idle"
      [] caller = "finally" -> "det_stop"

\* Where control continues when _stop_current_task returns to its caller.
StopReturn(caller) ==
    CASE caller = "run_task"    -> "start"
      [] caller = "run_stop"    -> "idle"
      [] caller = "mon_stop"    -> "mon_end"
      [] caller = "mon_task"    -> "start"
      [] caller = "mon_timeout" -> "mon_end"
      [] caller = "finally"     -> "det_stop"

\* Control is back at line 198; the locals of the handled command are dead.
ToIdle ==
    /\ pc' = "idle"
    /\ ctx' = "None"
    /\ cmd_data' = "None"
    /\ preempted' = "None"
    /\ stopped' = "None"
    /\ elapsed' = 0

\* _stop_current_task returns
StopReturns ==
    IF StopReturn(ctx) = "idle"
    THEN ToIdle
    ELSE pc' = StopReturn(ctx) /\ UNCHANGED <<locals, elapsed>>

\* An exception leaves run's try block: the finally clause (line 214) runs.
Raise(e) ==
    /\ pc' = "stop_check"
    /\ ctx' = "finally"
    /\ exc' = e
    /\ UNCHANGED <<cmd_data, preempted, stopped>>

\* line 95 and, when the process is alive, send_signal(SIGINT) (line 97)
StopCheck ==
    /\ pc = "stop_check"
    /\ IF ProcessRunning
       THEN /\ signalled' = signalled \cup {current_process}
            /\ pc' = "stop_wait"
            /\ waited' = 0
            /\ UNCHANGED <<locals, elapsed>>
       ELSE /\ StopReturns
            /\ UNCHANGED <<signalled, waited>>
    /\ UNCHANGED <<new_process, exc>>
    /\ UNCHANGED <<live, killed>>
    /\ UNCHANGED <<robotVars, busVars, detVars, ngot, speechVars>>

\* lines 100-101: wait(timeout=5) returns, the process has exited
StopWaitReturn ==
    /\ pc = "stop_wait"
    /\ ~Alive(current_process)
    /\ pc' = "stop_clear"
    /\ stopped' = "cleanly"
    /\ UNCHANGED <<ctx, cmd_data, preempted, new_process, exc, elapsed, waited>>
    /\ UNCHANGED <<robotVars, busVars, procVars, detVars, ngot, speechVars>>

\* Variant of GraceExpired: a wait without timeout.
GraceNeverExpires(w) == FALSE

\* wait(timeout=5) raises TimeoutExpired once the grace period is over
GraceExpired(w) == w >= GRACE_PERIOD

\* Variant of Kill: a kill that leaves the process alive.
KillMisses(p) == live

\* current_process.kill(): the process is dead
Kill(p) == live \ {p}

\* lines 102-104
StopWaitTimeout ==
    /\ pc = "stop_wait"
    /\ Alive(current_process)
    /\ GraceExpired(waited)
    /\ live' = Kill(current_process)
    /\ killed' = killed \cup {current_process}
    /\ pc' = "stop_clear"
    /\ stopped' = "forcefully"
    /\ UNCHANGED <<ctx, cmd_data, preempted, new_process, exc, elapsed, waited>>
    /\ UNCHANGED signalled
    /\ UNCHANGED <<robotVars, busVars, detVars, ngot, speechVars>>

\* line 103: current_process.kill() raises (the platform refuses the signal)
KillRefused ==
    /\ pc = "stop_wait"
    /\ Alive(current_process)
    /\ GraceExpired(waited)
    /\ IF ctx = "finally"
       THEN pc' = "crashed" /\ exc' = "PermissionError" /\ UNCHANGED locals
       ELSE Raise("PermissionError")
    /\ waited' = 0
    /\ UNCHANGED <<new_process, elapsed>>
    /\ UNCHANGED <<robotVars, busVars, procVars, detVars, ngot, speechVars>>

\* line 106; with the Popen object goes what was recorded of its process
StopClearProcess ==
    /\ pc = "stop_clear"
    /\ current_process' = NoProcess
    /\ signalled' = signalled \ {current_process}
    /\ killed' = killed \ {current_process}
    /\ pc' = "stop_clear_key"
    /\ waited' = 0
    /\ UNCHANGED <<current_task_name, current_task_key, live>>
    /\ UNCHANGED <<locals, new_process, exc, elapsed>>
    /\ UNCHANGED <<busVars, detVars, ngot, speechVars>>

\* lines 107-108, and the return
StopClearKey ==
    /\ pc = "stop_clear_key"
    /\ current_task_name' = "None"
    /\ current_task_key' = "None"
    /\ StopReturns
    /\ UNCHANGED current_process
    /\ UNCHANGED <<new_process, exc, waited>>
    /\ UNCHANGED <<busVars, procVars, detVars, ngot, speechVars>>

(***************************************************************************)
(* VoiceControlledRobot._start_task                                        *)
(***************************************************************************)
\* lines 112-116: unknown key, reported, return
StartUnknown ==
    /\ pc = "start"
    /\ ~KnownTask(cmd_data)
    /\ pc' = "mon_enter"
    /\ UNCHANGED <<locals, new_process, exc, elapsed, waited>>
    /\ UNCHANGED <<robotVars, busVars, procVars, detVars, ngot, speechVars>>

\* line 133, right-hand side: subprocess.Popen(cmd) spawns the process
StartPopen ==
    /\ pc = "start"
    /\ KnownTask(cmd_data)
    /\ live' = live \cup {NewPid}
    /\ new_process' = NewPid
    /\ pc' = "start_assign"
    /\ UNCHANGED <<locals, exc, elapsed, waited>>
    /\ UNCHANGED <<signalled, killed>>
    /\ UNCHANGED <<robotVars, busVars, detVars, ngot, speechVars>>

\* line 133: subprocess.Popen(cmd) raises (executable missing, permissions)
SpawnFails ==
    /\ pc = "start"
    /\ KnownTask(cmd_data)
    /\ Raise("OSError")
    /\ UNCHANGED <<new_process, elapsed, waited>>
    /\ UNCHANGED <<robotVars, busVars, procVars, detVars, ngot, speechVars>>

\* line 133, the assignment
StartAssignProcess ==
    /\ pc = "start_assign"
    /\ current_process' = new_process
    /\ new_process' = NoProcess
    /\ pc' = "start_assign_key"
    /\ UNCHANGED <<current_task_name, current_task_key>>
    /\ UNCHANGED <<locals, exc, elapsed, waited>>
    /\ UNCHANGED <<busVars, procVars, detVars, ngot, speechVars>>

\* lines 134-135, and the return
StartAssignKey ==
    /\ pc = "start_assign_key"
    /\ current_task_name' = VOICE_TASKS[cmd_data]
    /\ current_task_key' = cmd_data
    /\ pc' = "mon_enter"
    /\ UNCHANGED current_process
    /\ UNCHANGED <<locals, new_process, exc, elapsed, waited>>
    /\ UNCHANGED <<busVars, procVars, detVars, ngot, speechVars>>

(***************************************************************************)
(* VoiceControlledRobot._monitor_task                                      *)
(***************************************************************************)
\* Variant of TimedOut: no timeout check.
TimedOutNever(e) == FALSE

\* time.time() - start_time > TASK_TIMEOUT
TimedOut(e) == e > TASK_TIMEOUT

\* lines 139-142
MonitorEnter ==
    /\ pc = "mon_enter"
    /\ IF current_process = NoProcess
       THEN ToIdle
       ELSE /\ pc' = "mon_loop"
            /\ elapsed' = 0
            /\ UNCHANGED locals
    /\ UNCHANGED <<new_process, exc, waited>>
    /\ UNCHANGED <<robotVars, busVars, procVars, detVars, ngot, speechVars>>

\* lines 144-151: the loop condition, then the timeout check
MonitorLoop ==
    /\ pc = "mon_loop"
    /\ IF ~ProcessRunning
       THEN pc' = "mon_end" /\ UNCHANGED ctx
       ELSE IF TimedOut(elapsed)
            THEN pc' = "stop_check" /\ ctx' = "mon_timeout"
            ELSE pc' = "mon_get" /\ UNCHANGED ctx
    /\ UNCHANGED <<cmd_data, preempted, stopped>>
    /\ UNCHANGED <<new_process, exc, elapsed, waited>>
    /\ UNCHANGED <<robotVars, busVars, procVars, detVars, ngot, speechVars>>

\* lines 155-165: a command is dequeued
MonitorGet ==
    /\ pc = "mon_get"
    /\ command_queue # <<>>
    /\ LET got == Get(command_queue) IN
        /\ command_queue' = got.rest
        /\ ngot' = ngot + 1
        /\ cmd_data' = got.cmd.data
        /\ pc' = "stop_check"
        /\ IF got.cmd.type = "stop"
           THEN ctx' = "mon_stop" /\ UNCHANGED preempted
           ELSE /\ ctx' = "mon_task"
                /\ preempted' = IF ProcessRunning THEN current_task_key
                                ELSE "None"
    /\ UNCHANGED <<stopped, new_process, exc, elapsed, waited>>
    /\ UNCHANGED <<robotVars, nput, procVars, detVars, speechVars>>

\* lines 167-168: queue.Empty after 0.1 s
MonitorEmpty ==
    /\ pc = "mon_get"
    /\ command_queue = <<>>
    /\ pc' = "mon_loop"
    /\ UNCHANGED <<locals, new_process, exc, elapsed, waited>>
    /\ UNCHANGED <<robotVars, busVars, procVars, detVars, ngot, speechVars>>

\* lines 171-175: the process has finished on its own
MonitorEnd ==
    /\ pc = "mon_end"
    /\ IF current_process # NoProcess /\ ~Alive(current_process)
       THEN /\ current_process' = NoProcess
            /\ pc' = "nat_clear_key"
            /\ UNCHANGED <<locals, elapsed>>
       ELSE /\ UNCHANGED current_process
            /\ ToIdle
    /\ UNCHANGED <<current_task_name, current_task_key>>
    /\ UNCHANGED <<new_process, exc, waited>>
    /\ UNCHANGED <<busVars, procVars, detVars, ngot, speechVars>>

\* lines 176-177, and the return to run's loop
NaturalClearKey ==
    /\ pc = "nat_clear_key"
    /\ current_task_name' = "None"
    /\ current_task_key' = "None"
    /\ ToIdle
    /\ UNCHANGED current_process
    /\ UNCHANGED <<new_process, exc, waited>>
    /\ UNCHANGED <<busVars, procVars, detVars, ngot, speechVars>>

(***************************************************************************)
(* AudioKeywordDetector.start, stop, _cleanup_audio                        *)
(***************************************************************************)
\* start(blocking=False)
DetectorStart ==
    IF running
    THEN UNCHANGED detVars
    ELSE /\ thread < MaxThreads
         /\ stream' = "open"
         /\ audio' = "open"
         /\ running' = TRUE
         /\ thread' = thread + 1
         /\ rpc' = [rpc EXCEPT ![thread + 1] = "loop"]
         /\ UNCHANGED <<recleaned, callbacks, text, idx, faulted, fired, caught, dirty, called, heard>>

\* _cleanup_audio
CleanupAudio ==
    /\ stream' = IF stream = "None" THEN "None" ELSE "closed"
    /\ audio' = IF audio = "None" THEN "None" ELSE "terminated"
    /\ recleaned' = (recleaned \/ stream = "closed" \/ audio = "terminated")

(***************************************************************************)
(* VoiceControlledRobot.run                                                *)
(***************************************************************************)
\* line 192
RunStartDetector ==
    /\ pc = "run_start"
    /\ DetectorStart
    /\ pc' = "idle"
    /\ UNCHANGED <<locals, new_process, exc, elapsed, waited>>
    /\ UNCHANGED <<robotVars, busVars, procVars, ngot, speechVars>>

\* lines 198-206: a command is dequeued in the idle loop
RunGet ==
    /\ pc = "idle"
    /\ command_queue # <<>>
    /\ LET got == Get(command_queue) IN
        /\ command_queue' = got.rest
        /\ ngot' = ngot + 1
        /\ cmd_data' = got.cmd.data
        /\ pc' = "stop_check"
        /\ ctx' = IF got.cmd.type = "task" THEN "run_task" ELSE "run_stop"
    /\ UNCHANGED <<preempted, stopped, new_process, exc, elapsed, waited>>
    /\ UNCHANGED <<robotVars, nput, procVars, detVars, speechVars>>

\* line 215, detector.stop(): line 172 and the is_alive test of line 173
DetStop ==
    /\ pc = "det_stop"
    /\ running' = FALSE
    /\ pc' = IF thread # 0 /\ ThreadAlive(thread) THEN "det_join"
             ELSE "det_cleanup"
    /\ UNCHANGED <<stream, audio, thread, recleaned, loopVars>>
    /\ UNCHANGED <<locals, new_process, exc, elapsed, waited>>
    /\ UNCHANGED <<robotVars, busVars, procVars, ngot, speechVars>>

\* line 174: join(timeout=2.0) returns, the thread finished or not
DetJoin ==
    /\ pc = "det_join"
    /\ pc' = "det_cleanup"
    /\ UNCHANGED <<locals, new_process, exc, elapsed, waited>>
    /\ UNCHANGED <<robotVars, busVars, procVars, detVars, ngot, speechVars>>

\* detector.stop() called by a client of the spotter other than run: no
\* call since the last start(), the first call, a call that follows a call.
ClientCalls == {"client", "client_stop", "client_restop"}

\* line 175, and the return of stop()
DetCleanup ==
    /\ pc = "det_cleanup"
    /\ CleanupAudio
    /\ pc' = CASE ctx \in ClientCalls -> "client"
               [] ctx \notin ClientCalls /\ exc = "KeyboardInterrupt" -> "done"
               [] OTHER -> "crashed"
    /\ UNCHANGED <<running, thread, loopVars>>
    /\ UNCHANGED <<locals, new_process, exc, elapsed, waited>>
    /\ UNCHANGED <<robotVars, busVars, procVars, ngot, speechVars>>

(***************************************************************************)
(* AudioKeywordDetector._listen_loop, run by thread t                      *)
(***************************************************************************)
\* line 117: while self._running
LoopHead(t) ==
    /\ rpc[t] = "loop"
    /\ ~ProgramExited
    /\ rpc' = [rpc EXCEPT ![t] = IF running THEN "read" ELSE "cleanup"]
    /\ UNCHANGED <<audioVars, callbacks, text, idx, faulted, fired, caught, dirty, called, heard>>
    /\ UNCHANGED <<robotVars, busVars, supVars, procVars, ngot, speechVars>>

\* lines 118-127: a chunk completes an utterance with the non-empty text s
Hear(t, s) ==
    /\ rpc[t] = "read"
    /\ ~ProgramExited
    /\ stream = "open"
    /\ heard' = heard + 1
    /\ text' = [text EXCEPT ![t] = Lower(s)]
    /\ idx' = [idx EXCEPT ![t] = 1]
    /\ fired' = [fired EXCEPT ![t] = [b \in Bindings |-> 0]]
    /\ caught' = [caught EXCEPT ![t] = FALSE]
    /\ rpc' = [rpc EXCEPT ![t] = "detect"]
    /\ UNCHANGED <<dirty, called>>
    /\ UNCHANGED <<audioVars, callbacks, faulted>>
    /\ UNCHANGED <<robotVars, busVars, supVars, procVars, ngot, speechVars>>

\* one of the utterances of a run
ReadFinal(t, s) ==
    /\ heard < MaxUtterances
    /\ Hear(t, s)

\* lines 118-132: a chunk with no final text (partial result, or empty text)
ReadPartial(t) ==
    /\ rpc[t] = "read"
    /\ ~ProgramExited
    /\ stream = "open"
    /\ rpc' = [rpc EXCEPT ![t] = "loop"]
    /\ UNCHANGED <<audioVars, callbacks, text, idx, faulted, fired, caught, dirty, called, heard>>
    /\ UNCHANGED <<robotVars, busVars, supVars, procVars, ngot, speechVars>>

\* lines 118, 134-135: the read raises
ReadRaises(t) ==
    /\ rpc[t] = "read"
    /\ ~ProgramExited
    /\ faulted' = [faulted EXCEPT ![t] = TRUE]
    /\ rpc' = [rpc EXCEPT ![t] = "cleanup"]
    /\ UNCHANGED <<audioVars, callbacks, text, idx, fired, caught, dirty, called, heard>>
    /\ UNCHANGED <<robotVars, busVars, supVars, procVars, ngot, speechVars>>

\* a device fault while the stream is open
ReadFault(t) == stream = "open" /\ ReadRaises(t)

\* a read of a stream that has been released
ReadClosed(t) == stream # "open" /\ ReadRaises(t)

\* lines 136-137: finally, _cleanup_audio; the thread ends
ThreadCleanup(t) ==
    /\ rpc[t] = "cleanup"
    /\ ~ProgramExited
    /\ CleanupAudio
    /\ rpc' = [rpc EXCEPT ![t] = "exited"]
    /\ UNCHANGED <<running, thread, callbacks, text, idx, faulted, fired, caught, dirty, called, heard>>
    /\ UNCHANGED <<robotVars, busVars, supVars, procVars, ngot, speechVars>>

(***************************************************************************)
(* AudioKeywordDetector._detect_keywords and the callbacks of main.py      *)
(***************************************************************************)
\* The callback returns: the scan goes on.
CallbackDone(t) ==
    /\ idx' = [idx EXCEPT ![t] = idx[t] + 1]
    /\ rpc' = [rpc EXCEPT ![t] = "detect"]
    /\ UNCHANGED caught

\* Variant of CallbackCaught: no try around the call, the exception ends
\* the loop at line 134.
CallbackEscapes == "cleanup"

\* lines 111-112: where the thread goes on after `except Exception`
CallbackCaught == "detect"

\* The callback raises; the exception is caught and printed.
CallbackFaults(t) ==
    /\ idx' = [idx EXCEPT ![t] = idx[t] + 1]
    /\ rpc' = [rpc EXCEPT ![t] = CallbackCaught]
    /\ caught' = [caught EXCEPT ![t] = TRUE]

\* lines 105-110: scan to the next key that occurs in the text, call its
\* callback; _on_stop_command (lines 84-91) runs at once
DetectNext(t) ==
    LET j == NextMatch(callbacks, text[t], idx[t]) IN
       IF j = 0
       THEN /\ rpc' = [rpc EXCEPT ![t] = "loop"]
            /\ text' = [text EXCEPT ![t] = <<>>]
            /\ idx' = [idx EXCEPT ![t] = 0]
            /\ fired' = [fired EXCEPT ![t] = [b \in Bindings |-> 0]]
            /\ caught' = [caught EXCEPT ![t] = FALSE]
            /\ called' = [called EXCEPT ![t] = NoCallback]
            /\ UNCHANGED busVars
       ELSE /\ fired' = [fired EXCEPT ![t][callbacks[j].cb] = @ + 1]
            /\ called' = [called EXCEPT ![t] = callbacks[j].cb]
            /\ UNCHANGED caught
            /\ IF callbacks[j].cb.kind = "stop"
               THEN /\ Put(StopCommand)
                    /\ idx' = [idx EXCEPT ![t] = j + 1]
                    /\ UNCHANGED rpc
               ELSE /\ idx' = [idx EXCEPT ![t] = j]
                    /\ rpc' = [rpc EXCEPT ![t] = "cb_key"]
                    /\ UNCHANGED busVars
            /\ UNCHANGED text

\* line 105: the for statement takes the next item of _callbacks
Detect(t) ==
    /\ rpc[t] = "detect"
    /\ ~ProgramExited
    /\ IF dirty[t]
       THEN \* RuntimeError: dictionary changed size during iteration;
            \* raised by the for statement, caught at line 134
            /\ rpc' = [rpc EXCEPT ![t] = "cleanup"]
            /\ faulted' = [faulted EXCEPT ![t] = TRUE]
            /\ dirty' = [dirty EXCEPT ![t] = FALSE]
            /\ UNCHANGED <<text, idx, fired, caught, called, busVars>>
       ELSE /\ DetectNext(t)
            /\ UNCHANGED <<faulted, dirty>>
    /\ UNCHANGED <<audioVars, callbacks, heard>>
    /\ UNCHANGED <<robotVars, supVars, procVars, ngot, speechVars>>

\* the task_key of the lambda being run by thread t
CallbackKey(t) == called[t].key

\* _on_task_command, line 73, first operand: current_task_key == task_key
OnTaskKey(t) ==
    /\ rpc[t] = "cb_key"
    /\ ~ProgramExited
    /\ IF current_task_key = CallbackKey(t)
       THEN /\ rpc' = [rpc EXCEPT ![t] = "cb_proc"]
            /\ UNCHANGED <<idx, caught, busVars>>
       ELSE /\ Put(TaskCommand(CallbackKey(t)))
            /\ CallbackDone(t)
    /\ UNCHANGED <<audioVars, callbacks, text, faulted, fired, dirty, called, heard>>
    /\ UNCHANGED <<robotVars, supVars, procVars, ngot, speechVars>>

\* The callback raises before it has queued anything (a fault of the
\* platform inside _on_task_command).
CallbackRaises(t) ==
    /\ rpc[t] = "cb_key"
    /\ ~ProgramExited
    /\ CallbackFaults(t)
    /\ UNCHANGED <<audioVars, callbacks, text, faulted, fired, dirty, called, heard>>
    /\ UNCHANGED <<robotVars, busVars, supVars, procVars, ngot, speechVars>>

\* line 73, second operand: self.current_process
OnTaskProcess(t) ==
    /\ rpc[t] = "cb_proc"
    /\ ~ProgramExited
    /\ IF current_process # NoProcess
       THEN /\ rpc' = [rpc EXCEPT ![t] = "cb_poll"]
            /\ UNCHANGED <<idx, caught, busVars>>
       ELSE /\ Put(TaskCommand(CallbackKey(t)))
            /\ CallbackDone(t)
    /\ UNCHANGED <<audioVars, callbacks, text, faulted, fired, dirty, called, heard>>
    /\ UNCHANGED <<robotVars, supVars, procVars, ngot, speechVars>>

\* line 73, third operand: self.current_process.poll() is None.
\* With current_process None by now the call raises AttributeError, which
\* _detect_keywords catches (lines 111-112): nothing is queued.
OnTaskPoll(t) ==
    /\ rpc[t] = "cb_poll"
    /\ ~ProgramExited
    /\ CASE current_process = NoProcess ->
                CallbackFaults(t) /\ UNCHANGED busVars
         [] current_process # NoProcess /\ Alive(current_process) ->
                CallbackDone(t) /\ UNCHANGED busVars
         [] OTHER ->
                Put(TaskCommand(CallbackKey(t))) /\ CallbackDone(t)
    /\ UNCHANGED <<audioVars, callbacks, text, faulted, fired, dirty, called, heard>>
    /\ UNCHANGED <<robotVars, supVars, procVars, ngot, speechVars>>

(***************************************************************************)
(* Specifications.                                                         *)
(***************************************************************************)
Supervisor ==
    \/ RunStartDetector
    \/ RunGet
    \/ StopCheck
    \/ StopWaitReturn
    \/ StopWaitTimeout
    \/ StopClearProcess
    \/ StopClearKey
    \/ StartPopen
    \/ StartAssignProcess
    \/ StartAssignKey
    \/ MonitorEnter
    \/ MonitorLoop
    \/ MonitorGet
    \/ MonitorEmpty
    \/ MonitorEnd
    \/ NaturalClearKey

Listener ==
    \E t \in Threads :
        \/ LoopHead(t)
        \/ \E s \in Transcripts : ReadFinal(t, s)
        \/ ReadPartial(t)
        \/ Detect(t)
        \/ OnTaskKey(t)
        \/ OnTaskProcess(t)
        \/ OnTaskPoll(t)

Environment ==
    \/ \E p \in live : ProcExit(p)
    \/ Tick
    \/ WaitTick

\* The program on a platform that spawns, signals and records without fault.
Next == Supervisor \/ Listener \/ Environment

Spec == Init /\ [][Next]_vars

\* Faults of the platform, and the shutdown path they lead to
\* (run's finally clause, lines 213-216).
Faults ==
    \/ SpawnFails
    \/ KillRefused
    \/ \E t \in Threads : ReadFault(t)
    \/ \E t \in Threads : CallbackRaises(t)

Shutdown ==
    \/ DetStop
    \/ DetJoin
    \/ DetCleanup
    \/ \E t \in Threads : ThreadCleanup(t)

NextFaults == Next \/ Faults \/ Shutdown

SpecFaults == Init /\ [][NextFaults]_vars

(***************************************************************************)
(* Announcements. A _speak thread shares nothing with the rest of the      *)
(* program but tts_lock and the engine, and its creator does not look at   *)
(* it again: the threads are modelled with the two threads that create     *)
(* them announcing at any moment.                                          *)
(***************************************************************************)
\* Number of announcements made in one run.
MaxAnnouncements == 4

\* The recognition thread announces at lines 82 and 91, the control thread
\* at lines 115, 149 and 175.
Callers == {"recognition", "supervisor"}

\* threading.Thread(target=self._speak, args=(msg,), daemon=True).start()
Announce(c) ==
    /\ Len(speech) < MaxAnnouncements
    /\ speech' = Append(speech, [by |-> c, st |-> "start"])
    /\ UNCHANGED tts_lock
    /\ UNCHANGED <<robotVars, busVars, supVars, procVars, detVars, ngot>>

\* Variant of LockFree: _speak does not take the lock.
LockIgnored == TRUE

\* tts_lock can be acquired
LockFree == tts_lock = 0

\* line 66: with self.tts_lock
SpeakAcquire(i) ==
    /\ speech[i].st = "start"
    /\ LockFree
    /\ tts_lock' = i
    /\ speech' = [speech EXCEPT ![i].st = "say"]
    /\ UNCHANGED <<robotVars, busVars, supVars, procVars, detVars, ngot>>

\* lines 67-68: say and runAndWait have returned, the lock is released
SpeakRelease(i) ==
    /\ speech[i].st = "say"
    /\ tts_lock' = 0
    /\ speech' = [speech EXCEPT ![i].st = "done"]
    /\ UNCHANGED <<robotVars, busVars, supVars, procVars, detVars, ngot>>

NextSpeech ==
    \/ \E c \in Callers : Announce(c)
    \/ \E i \in 1..Len(speech) : SpeakAcquire(i)
    \/ \E i \in 1..Len(speech) : SpeakRelease(i)

SpecSpeech == Init /\ [][NextSpeech]_vars

(***************************************************************************)
(* The program with an operator who may press Ctrl+C at any moment.        *)
(***************************************************************************)
\* Positions of the control thread inside the try block of lines 194-209.
InTry ==
    /\ pc \in {"idle", "stop_check", "stop_wait", "stop_clear",
               "stop_clear_key", "start", "start_assign", "start_assign_key",
               "mon_enter", "mon_loop", "mon_get", "mon_end", "nat_clear_key"}
    /\ ctx \notin {"finally"} \cup ClientCalls

\* SIGINT reaches the main thread: KeyboardInterrupt is raised between two
\* bytecodes of the try block, caught at line 211, and finally runs.
Interrupt ==
    /\ InTry
    /\ Raise("KeyboardInterrupt")
    /\ UNCHANGED <<new_process, elapsed, waited>>
    /\ UNCHANGED <<robotVars, busVars, procVars, detVars, ngot, speechVars>>

NextInterrupt == Next \/ Interrupt \/ Shutdown

SpecInterrupt == Init /\ [][NextInterrupt]_vars

(***************************************************************************)
(* The supervisor fed by a producer that may name any key: the commands    *)
(* are on the bus when run starts, the microphone stays silent.            *)
(***************************************************************************)
\* Number of commands on the bus at the start.
MaxPreload == 2

AnyCommand ==
    {TaskCommand(k) : k \in DOMAIN VOICE_TASKS \cup {"unknown"}}
        \cup {StopCommand}

PreloadedQueues ==
    UNION {[1..n -> AnyCommand] : n \in 0..MaxPreload}

\* The commands of q as put one after the other
Stamped(q) == [i \in 1..Len(q) |-> [q[i] EXCEPT !.seq = i]]

InitBus ==
    /\ command_queue \in {Stamped(q) : q \in PreloadedQueues}
    /\ nput = Len(command_queue)
    /\ current_process = NoProcess
    /\ current_task_name = "None"
    /\ current_task_key = "None"
    /\ pc = "run_start"
    /\ ctx = "None"
    /\ cmd_data = "None"
    /\ preempted = "None"
    /\ stopped = "None"
    /\ new_process = NoProcess
    /\ exc = "None"
    /\ elapsed = 0
    /\ waited = 0
    /\ live = {}
    /\ signalled = {}
    /\ killed = {}
    /\ callbacks = RobotCallbacks
    /\ running = FALSE
    /\ stream = "None"
    /\ audio = "None"
    /\ thread = 0
    /\ recleaned = FALSE
    /\ rpc = [t \in Threads |-> "None"]
    /\ text = [t \in Threads |-> <<>>]
    /\ idx = [t \in Threads |-> 0]
    /\ faulted = [t \in Threads |-> FALSE]
    /\ fired = [t \in Threads |-> [b \in Bindings |-> 0]]
    /\ caught = [t \in Threads |-> FALSE]
    /\ dirty = [t \in Threads |-> FALSE]
    /\ called = [t \in Threads |-> NoCallback]
    /\ heard = 0
    /\ ngot = 0
    /\ tts_lock = 0
    /\ speech = <<>>

NextBus == Supervisor \/ StartUnknown \/ Environment

SpecBus == InitBus /\ [][NextBus]_vars

\* The same, with a scheduler that keeps running the main thread and a
\* clock that keeps advancing; a supervised process need never exit.
SpecLive ==
    /\ InitBus
    /\ [][NextBus]_vars
    /\ WF_vars(Supervisor \/ StartUnknown)
    /\ WF_vars(Tick)
    /\ WF_vars(WaitTick)

(***************************************************************************)
(* The keyword spotter driven by a client that calls start(blocking=False) *)
(* and stop() in any order.                                                *)
(***************************************************************************)
InitSpotter ==
    /\ pc = "client"
    /\ ctx = "client"
    /\ command_queue = <<>>
    /\ nput = 0
    /\ current_process = NoProcess
    /\ current_task_name = "None"
    /\ current_task_key = "None"
    /\ cmd_data = "None"
    /\ preempted = "None"
    /\ stopped = "None"
    /\ new_process = NoProcess
    /\ exc = "None"
    /\ elapsed = 0
    /\ waited = 0
    /\ live = {}
    /\ signalled = {}
    /\ killed = {}
    /\ callbacks = RobotCallbacks
    /\ running = FALSE
    /\ stream = "None"
    /\ audio = "None"
    /\ thread = 0
    /\ recleaned = FALSE
    /\ rpc = [t \in Threads |-> "None"]
    /\ text = [t \in Threads |-> <<>>]
    /\ idx = [t \in Threads |-> 0]
    /\ faulted = [t \in Threads |-> FALSE]
    /\ fired = [t \in Threads |-> [b \in Bindings |-> 0]]
    /\ caught = [t \in Threads |-> FALSE]
    /\ dirty = [t \in Threads |-> FALSE]
    /\ called = [t \in Threads |-> NoCallback]
    /\ heard = 0
    /\ ngot = 0
    /\ tts_lock = 0
    /\ speech = <<>>

\* detector.start(blocking=False)
ClientStart ==
    /\ pc = "client"
    /\ DetectorStart
    /\ ctx' = IF running THEN ctx ELSE "client"
    /\ UNCHANGED <<pc, cmd_data, preempted, stopped>>
    /\ UNCHANGED <<new_process, exc, elapsed, waited>>
    /\ UNCHANGED <<robotVars, busVars, procVars, ngot, speechVars>>

\* detector.stop() is called
ClientStop ==
    /\ pc = "client"
    /\ pc' = "det_stop"
    /\ ctx' = IF ctx = "client" THEN "client_stop" ELSE "client_restop"
    /\ UNCHANGED <<cmd_data, preempted, stopped>>
    /\ UNCHANGED <<new_process, exc, elapsed, waited>>
    /\ UNCHANGED <<robotVars, busVars, procVars, detVars, ngot, speechVars>>

\* No task ever runs here, so _on_task_command returns at its first test.
NextSpotter ==
    \/ ClientStart
    \/ ClientStop
    \/ DetStop
    \/ DetJoin
    \/ DetCleanup
    \/ \E t \in Threads : LoopHead(t)
    \/ \E t \in Threads, s \in Transcripts : ReadFinal(t, s)
    \/ \E t \in Threads : ReadPartial(t)
    \/ \E t \in Threads : Detect(t)
    \/ \E t \in Threads : OnTaskKey(t)
    \/ \E t \in Threads : ReadFault(t)
    \/ \E t \in Threads : ReadClosed(t)
    \/ \E t \in Threads : ThreadCleanup(t)

SpecSpotter == InitSpotter /\ [][NextSpotter]_vars

(***************************************************************************)
(* Properties.                                                             *)
(***************************************************************************)
\* The supervisor is Running: it monitors a task whose process is alive.
Running == pc \in {"mon_loop", "mon_get"} /\ ProcessRunning

\* C1: at every instant at most one supervised process is alive; when
\* _start_task is about to spawn, the termination sequence of the previous
\* task is over and no supervised process is alive; and while the
\* supervisor is Running, the handle is that of the StartTask got last.
OneSupervisedProcess ==
    /\ Cardinality(live) <= 1
    /\ pc = "start" => live = {}
    /\ Running => /\ current_task_key = cmd_data
                  /\ current_task_name = VOICE_TASKS[cmd_data]
                  /\ live = {current_process}

\* Two StartTask back to back: the second preempted the first, which was
\* alive, had another key and had to be killed after the grace period; the
\* second task's process now runs alone.
PreemptedAndRunning ==
    /\ Running
    /\ pc = "mon_get"
    /\ ctx = "mon_task"
    /\ preempted \notin {"None", current_task_key}
    /\ stopped = "forcefully"
    /\ ngot = 2
    /\ command_queue = <<>>

\* C2: a StartTask(k) got while task k runs and its process is alive is
\* suppressed: the process is not sent the interrupt and no process is
\* spawned for the command.
DuplicateStartSuppressed ==
    (ctx = "mon_task" /\ preempted # "None" /\ preempted = cmd_data)
        => pc \notin {"stop_wait", "stop_clear", "stop_clear_key",
                      "start_assign", "start_assign_key"}

\* The callback callbacks[i].cb is bound to a key that occurs in txt.
BindingMatches(b, txt) ==
    \E i \in 1..Len(callbacks) :
        callbacks[i].cb = b /\ IsSubstring(callbacks[i].key, txt)

\* The scan of thread t over _callbacks has reached the end.
ScanOver(t) ==
    rpc[t] = "detect" /\ NextMatch(callbacks, text[t], idx[t]) = 0

\* C3: for a final transcript, the action of every keyword of which the
\* canonical key or an alias occurs in the text has fired exactly once,
\* and no other action has fired.
ActionFiresOncePerTranscript ==
    \A t \in Threads :
        ScanOver(t) =>
            \A b \in Bindings :
                fired[t][b] = IF BindingMatches(b, text[t]) THEN 1 ELSE 0


\* The task handle is empty.
HandleEmpty ==
    /\ current_process = NoProcess
    /\ current_task_name = "None"
    /\ current_task_key = "None"

\* Idle: run waits at line 198 for a command.
Idle == pc = "idle"

\* The steps of the termination sequence run for caller c, in order:
\* the wait is entered with SIGINT sent and lasts at most the grace period;
\* it is left with the process dead, and killed only when the whole grace
\* period has passed; the handle is cleared over a dead process.
StopSteps(c) ==
    ctx = c =>
        /\ waited <= GRACE_PERIOD
        /\ pc = "stop_wait" => current_process \in signalled
        /\ pc = "stop_clear" =>
            /\ current_process \in signalled
            /\ ~Alive(current_process)
            /\ stopped = "forcefully" <=> current_process \in killed
            /\ stopped = "forcefully" => waited = GRACE_PERIOD
        /\ pc = "stop_clear_key" => current_process = NoProcess /\ live = {}
        /\ pc \in {"mon_end", "nat_clear_key"} => live = {}

\* C4: a Stop got while a task runs: SIGINT is sent, the wait lasts at most
\* the grace period, the process is killed if it is alive at its end, no
\* process survives the sequence, and the supervisor then reaches Idle
\* with the handle cleared.
StopCommandSequence ==
    /\ []StopSteps("mon_stop")
    /\ (ctx = "mon_stop") ~> (Idle /\ HandleEmpty /\ live = {})

\* A Stop was got while the task ran, the process ignored SIGINT for the
\* whole grace period and was killed; the handle is cleared.
StopKilledStubbornProcess ==
    /\ ctx = "mon_stop"
    /\ pc = "mon_end"
    /\ stopped = "forcefully"
    /\ HandleEmpty
    /\ live = {}


\* C5: a task that runs longer than TASK_TIMEOUT with no command in between
\* is stopped by the same termination sequence as for a Stop, and only
\* then; the supervisor reaches Idle with the handle cleared; and the clock
\* restarts whenever monitoring starts for a task, a preempting one
\* included.
TimeoutSequence ==
    /\ []StopSteps("mon_timeout")
    /\ [](ctx = "mon_timeout" => elapsed > TASK_TIMEOUT)
    /\ [][(pc = "mon_enter" /\ pc' = "mon_loop") => elapsed' = 0]_vars
    /\ (Running /\ elapsed > TASK_TIMEOUT /\ command_queue = <<>>)
           ~> (Idle /\ HandleEmpty /\ live = {})

\* A task that preempted another one ran into the timeout of its own
\* clock, ignored SIGINT and was killed; the handle is cleared.
PreemptingTaskTimedOut ==
    /\ ctx = "mon_timeout"
    /\ preempted # "None"
    /\ pc = "mon_end"
    /\ stopped = "forcefully"
    /\ HandleEmpty
    /\ live = {}

\* The program has left run's loop for the finally clause of line 213.
LoopLeft ==
    \/ ctx = "finally"
    \/ pc \in {"det_stop", "det_join", "det_cleanup", "done", "crashed"}

\* C6: after subprocess.Popen has failed, run's loop is still running: the
\* OSError does not take the program to its shutdown.
SpawnFailureKeepsLoop == exc = "OSError" => ~LoopLeft

\* A StartTask whose key is not in VOICE_TASKS was got at line 198.
UnknownTaskGot == ctx = "run_task" /\ cmd_data \notin DOMAIN VOICE_TASKS

\* C7: a StartTask with an unknown key got while Idle spawns nothing,
\* leaves the handle empty, and the supervisor is back at Idle, where it
\* gets the next command.
UnknownKeyRejected ==
    /\ [](UnknownTaskGot =>
            /\ pc \in {"stop_check", "start", "mon_enter"}
            /\ HandleEmpty
            /\ live = {}
            /\ new_process = NoProcess)
    /\ UnknownTaskGot ~> (Idle /\ HandleEmpty /\ live = {})

\* _start_task has returned at line 116 for the unknown key, and another
\* command waits on the bus.
UnknownKeyReturned ==
    /\ UnknownTaskGot
    /\ pc = "mon_enter"
    /\ command_queue # <<>>

\* C8: a Stop got while Idle: _stop_current_task returns to the loop of
\* run without a process spawned, signalled or killed; the handle is empty
\* before and after.
StopAtIdleIsNoOp ==
    [][ctx = "run_stop" =>
        /\ pc = "stop_check"
        /\ HandleEmpty /\ live = {}
        /\ pc' # pc => pc' = "idle"
        /\ UNCHANGED <<robotVars, procVars, new_process>>]_vars

\* A Stop was got while Idle, with the next command already on the bus.
StopGotAtIdle ==
    /\ ctx = "run_stop"
    /\ pc = "stop_check"
    /\ command_queue # <<>>

\* C9: the bus holds, in the order of the puts, exactly the commands put
\* and not yet got; each get takes the oldest of them, once, and hands it
\* to the supervisor, in run's loop and in the monitoring loop alike.
CommandsGotInOrder ==
    /\ [](/\ Len(command_queue) = nput - ngot
          /\ \A i \in 1..Len(command_queue) : command_queue[i].seq = ngot + i)
    /\ [][ngot' # ngot =>
            /\ ngot' = ngot + 1
            /\ Head(command_queue).seq = ngot'
            /\ command_queue' = Tail(command_queue)
            /\ cmd_data' = Head(command_queue).data]_vars

\* The monitoring loop has got the second command while two more, pushed
\* by the recognition thread, wait in order.
GotWhileMoreQueued ==
    /\ ngot = 2
    /\ ctx \in {"mon_task", "mon_stop"}
    /\ Len(command_queue) >= 2

\* C10: once a read fault has ended the capture loop of the current thread,
\* the spotter is not running.
ReadFaultLeavesNotRunning ==
    \A t \in Threads :
        (thread = t /\ faulted[t] /\ rpc[t] = "exited") => ~running


\* Thread t is inside _detect_keywords or a callback it has called.
Scanning(t) == rpc[t] \in {"detect", "cb_key", "cb_proc", "cb_poll"}

\* C11: an exception raised by a callback is caught: the thread stays in
\* the scan of _detect_keywords, and when the scan is over every binding
\* with a key in the transcript has had its callback called.
CallbackFaultCaught ==
    \A t \in Threads :
        /\ caught[t] => Scanning(t)
        /\ ScanOver(t) =>
            \A b \in Bindings : BindingMatches(b, text[t]) => fired[t][b] >= 1

\* "glove stop" was heard first; the glove callback raised and queued
\* nothing, the stop callback was called all the same and queued Stop.
SecondKeyFiredAfterFault ==
    \E t \in Threads :
        /\ ScanOver(t)
        /\ caught[t]
        /\ text[t] = T_glove_stop
        /\ fired[t][TaskCallback("glove")] = 1
        /\ fired[t][StopCallback] = 1
        /\ nput = 1
        /\ heard = 1


\* C12: after kill() has been refused the supervisor has not crashed: the
\* PermissionError does not take the program out of run's loop.
KillRefusalKeepsLoop == exc = "PermissionError" => ~LoopLeft


\* C13: when the program has exited after an operator interruption, no
\* supervised process is alive and the recognition loop has been told to
\* stop.
InterruptLeavesNoProcess == pc = "done" => (live = {} /\ ~running)


\* The _speak threads that are inside the synthesis call.
Synthesizing == {i \in 1..Len(speech) : speech[i].st = "say"}

\* C14: at most one _speak thread is inside the synthesis call, the one
\* that holds tts_lock; and whoever holds the lock, an announcement can be
\* made at once.
OneSynthesisAtATime ==
    /\ Cardinality(Synthesizing) <= 1
    /\ Synthesizing = IF tts_lock = 0 THEN {} ELSE {tts_lock}
    /\ \A c \in Callers :
        Len(speech) < MaxAnnouncements => ENABLED Announce(c)

\* One thread speaks; both the recognition thread and the control thread
\* have announced since, and their threads wait for the lock.
SpeechesWaitForLock ==
    \E i, j, k \in 1..Len(speech) :
        /\ i < j /\ i < k
        /\ speech[i].st = "say"
        /\ speech[j].st = "start" /\ speech[j].by = "recognition"
        /\ speech[k].st = "start" /\ speech[k].by = "supervisor"


\* Thread t is inside _on_task_command, about to read a field of the handle.
ReadsHandle(t) == rpc[t] \in {"cb_key", "cb_proc", "cb_poll"}

\* The control thread has written one field of the handle and not yet the
\* others (between lines 133 and 135, 106 and 108, 175 and 177).
HandleHalfWritten ==
    pc \in {"start_assign_key", "stop_clear_key", "nat_clear_key"}

\* C15: the recognition thread is never about to read the handle while the
\* control thread is in the middle of setting or clearing it.
HandleNotReadMidUpdate ==
    \A t \in Threads : ReadsHandle(t) => ~HandleHalfWritten


\* C16: while run waits for a command the handle is empty, and every step
\* that takes the control thread back to that wait leaves it empty.
IdleHandleEmpty ==
    /\ [](Idle => HandleEmpty)
    /\ [][(pc # "idle" /\ pc' = "idle") => HandleEmpty']_vars

\* A StartTask with an unknown key preempted a task whose process had died
\* on its own just before: nothing was stopped, nothing was started, and
\* the end of _monitor_task is clearing the stale handle.
StaleHandleBeingCleared ==
    /\ pc = "nat_clear_key"
    /\ ctx = "mon_task"
    /\ cmd_data = "unknown"
    /\ stopped = "None"
    /\ current_task_key # "None"


\* C17: a stop() that follows a stop() finds nothing to release: when it
\* reaches _cleanup_audio the stream is not one that was closed already and
\* the audio system not one that was terminated already.
SecondStopReleasesNothing ==
    (ctx = "client_restop" /\ pc = "det_cleanup") =>
        (stream # "closed" /\ audio # "terminated")


(* unregister_keyword: the client removes a keyword while the detector     *)
(* listens.                                                                *)

\* line 65: self._callbacks.pop(keyword.lower(), None)
unregister_keyword(cbs, keyword) ==
    SelectSeq(cbs, LAMBDA e : e.key # Lower(keyword))

K_Stop == <<"S","t","o","p">>

\* The keywords the client unregisters: three registered ones (one without
\* aliases, one with aliases, one written with a capital) and one that was
\* never registered.
Unregistered == {K_glove, K_pliers, K_Stop, T_hello}

\* detector.unregister_keyword(keyword), called between two other calls of
\* the client; a for statement that is iterating _callbacks finds the
\* dictionary's size changed when it takes its next item
ClientUnregister(keyword) ==
    /\ pc = "client"
    /\ callbacks' = unregister_keyword(callbacks, keyword)
    /\ dirty' = [t \in Threads |->
                    dirty[t] \/ (Scanning(t) /\ Len(callbacks') # Len(callbacks))]
    /\ UNCHANGED <<rpc, text, idx, faulted, fired, caught, called, heard>>
    /\ UNCHANGED <<audioVars, robotVars, busVars, supVars, procVars, ngot, speechVars>>

NextRegistry ==
    \/ ClientStart
    \/ \E keyword \in Unregistered : ClientUnregister(keyword)
    \/ \E t \in Threads : LoopHead(t)
    \/ \E t \in Threads, s \in Transcripts : ReadFinal(t, s)
    \/ \E t \in Threads : ReadPartial(t)
    \/ \E t \in Threads : Detect(t)
    \/ \E t \in Threads : OnTaskKey(t)
    \/ \E t \in Threads : ThreadCleanup(t)

SpecRegistry == InitSpotter /\ [][NextRegistry]_vars

\* The keyword each callback of the robot was registered with (main.py,
\* lines 54-57).
Canonical(b) ==
    CASE b = TaskCallback("glove")   -> K_glove
      [] b = TaskCallback("syringe") -> K_syringe
      [] b = TaskCallback("pliers")  -> K_pliers
      [] OTHER                       -> K_stop

\* C18: once a keyword has been unregistered, a scan made wholly after it
\* fires the keyword's action for no final transcript, whether the text
\* contains the keyword or one of the aliases it was registered with.
UnregisteredNeverFires ==
    \A t \in Threads :
        (ScanOver(t) /\ ~dirty[t]) =>
            \A b \in Bindings :
                ~HasKey(callbacks, Canonical(b)) => fired[t][b] = 0


(* A task is stopped and asked for again.                                  *)

\* What the user says: a task keyword, the stop keyword, the same task
\* keyword again.
Script == <<T_glove, T_stop, T_glove>>

\* The user says the next word of the script; the stop keyword is said
\* while the supervisor is running the task.
SaysNext(t) ==
    /\ heard < Len(Script)
    /\ Script[heard + 1] = T_stop => (Running /\ current_task_key = "glove")
    /\ Hear(t, Script[heard + 1])

ScriptListener ==
    \E t \in Threads :
        \/ LoopHead(t)
        \/ SaysNext(t)
        \/ Detect(t)
        \/ OnTaskKey(t)
        \/ OnTaskProcess(t)
        \/ OnTaskPoll(t)

\* A task process ends only when it was sent SIGINT.
ProcYields == \E p \in live \cap signalled : ProcExit(p)

\* The control thread; no task ends on its own here, so _monitor_task never
\* reaches the clearing of lines 171-177.
RestartSupervisor ==
    \/ RunStartDetector
    \/ RunGet
    \/ StopCheck
    \/ StopWaitReturn
    \/ StopWaitTimeout
    \/ StopClearProcess
    \/ StopClearKey
    \/ StartPopen
    \/ StartAssignProcess
    \/ StartAssignKey
    \/ MonitorEnter
    \/ MonitorLoop
    \/ MonitorGet
    \/ MonitorEmpty
    \/ MonitorEnd

NextRestart == RestartSupervisor \/ ScriptListener \/ ProcYields \/ WaitTick

SpecRestart == Init /\ [][NextRestart]_vars

\* Every word of the script was heard and handled, and the supervisor has
\* no command left to process.
AllProcessed ==
    /\ heard = Len(Script)
    /\ \A t \in Threads : rpc[t] \in {"None", "loop", "read"}
    /\ command_queue = <<>>
    /\ pc \in {"idle", "mon_loop", "mon_get"}

\* C19: the stop keyword and then the keyword of the running task were
\* detected; once the supervisor has processed every pending command it is
\* running the task again.
TaskAfterStopRunsAgain ==
    AllProcessed => (Running /\ current_task_key = "glove")



\* Thread t is inside an iteration of the capture loop: at the read of
\* line 118 or handling what it read.
InIteration(t) == rpc[t] = "read" \/ Scanning(t)

\* C20: whatever start() and stop() calls the client makes, at most one
\* thread is inside an iteration of the capture loop, and no thread is at
\* the read of a stream that has been released.
OneLoopOnOpenStream ==
    /\ Cardinality({t \in Threads : InIteration(t)}) <= 1
    /\ \A t \in Threads : rpc[t] = "read" => stream = "open"

====
